---------------------------- MODULE Spec2Model ----------------------------
(***************************************************************************)
(* sampleSorter (src/main.go): search a source tree for audio samples      *)
(* whose file name contains a keyword and copy the matches into numbered   *)
(* destination sub folders.                                                *)
(*                                                                         *)
(* Strings are sequences of byte values (ASCII codes), so that lower       *)
(* casing, slicing, searching and the byte order of directory listings are *)
(* computed the way the Go code and its standard library compute them.     *)
(***************************************************************************)
EXTENDS Integers, Sequences, FiniteSets, TLC

-----------------------------------------------------------------------------
(* Bytes the code names in its literals.                                   *)
Slash == 47     \* '/'  in "~/"
Tilde == 126    \* '~'  in "~/"
Dot   == 46     \* '.'  in ".wav"

(* strings.ToLower on ASCII text: 'A'..'Z' are moved to 'a'..'z'.          *)
ToLower(s) == [j \in 1..Len(s) |-> IF s[j] \in 65..90 THEN s[j] + 32 ELSE s[j]]

(* strings.Contains: sub occurs in s as a contiguous run of bytes.         *)
Contains(s, sub) ==
    \E o \in 0..(Len(s) - Len(sub)) : SubSeq(s, o + 1, o + Len(sub)) = sub

(* strings.Replace(s, old, new, 1) for a one byte old: the first           *)
(* occurrence of old is replaced, a string without old is returned as is.  *)
ReplaceFirst(s, old, new) ==
    LET at == {j \in 1..Len(s) : s[j] = old}
    IN  IF at = {} THEN s
        ELSE LET f == CHOOSE j \in at : \A k \in at : j <= k
             IN  SubSeq(s, 1, f - 1) \o new \o SubSeq(s, f + 1, Len(s))

(* The largest index of byte c in s, 0 when s does not hold c.             *)
LastIndex(s, c) ==
    LET at == {j \in 1..Len(s) : s[j] = c}
    IN  IF at = {} THEN 0 ELSE CHOOSE j \in at : \A k \in at : k <= j

RECURSIVE StripTrailingSlashes(_)
StripTrailingSlashes(s) ==
    IF Len(s) > 0 /\ s[Len(s)] = Slash
    THEN StripTrailingSlashes(SubSeq(s, 1, Len(s) - 1))
    ELSE s

(* filepath.Base: the last element of the path; trailing slashes are       *)
(* dropped first, "" gives "." and a path of slashes only gives "/".       *)
Base(path) ==
    IF path = <<>> THEN <<Dot>>
    ELSE LET p == StripTrailingSlashes(path)
         IN  IF p = <<>> THEN <<Slash>>
             ELSE SubSeq(p, LastIndex(p, Slash) + 1, Len(p))

(* filepath.Ext: the suffix starting at the last dot of the last element   *)
(* of the path, "" when that element holds no dot.                         *)
Ext(path) ==
    LET d == LastIndex(path, Dot)
    IN  IF d > LastIndex(path, Slash) THEN SubSeq(path, d, Len(path)) ELSE <<>>

(* The elements of a path between its slashes (empty ones included).       *)
RECURSIVE Split(_)
Split(s) ==
    LET at == {j \in 1..Len(s) : s[j] = Slash}
    IN  IF at = {} THEN <<s>>
        ELSE LET f == CHOOSE j \in at : \A k \in at : j <= k
             IN  <<SubSeq(s, 1, f - 1)>> \o Split(SubSeq(s, f + 1, Len(s)))

RECURSIVE JoinElems(_)
JoinElems(es) ==
    IF es = <<>> THEN <<>>
    ELSE IF Len(es) = 1 THEN es[1]
    ELSE es[1] \o <<Slash>> \o JoinElems(Tail(es))

(* The elements kept by filepath.Clean: "" and "." are dropped, ".."       *)
(* removes the element before it (or stays, in a relative path with        *)
(* nothing to remove; at the root it is dropped).                          *)
RECURSIVE CleanElems(_, _, _)
CleanElems(es, acc, rooted) ==
    IF es = <<>> THEN acc
    ELSE LET e == Head(es)
             up == <<Dot, Dot>>
         IN  IF e = <<>> \/ e = <<Dot>> THEN CleanElems(Tail(es), acc, rooted)
             ELSE IF e = up
             THEN IF Len(acc) > 0 /\ acc[Len(acc)] # up
                  THEN CleanElems(Tail(es), SubSeq(acc, 1, Len(acc) - 1), rooted)
                  ELSE IF rooted THEN CleanElems(Tail(es), acc, rooted)
                  ELSE CleanElems(Tail(es), Append(acc, e), rooted)
             ELSE CleanElems(Tail(es), Append(acc, e), rooted)

(* filepath.Clean: the shortest equivalent path.                           *)
Clean(path) ==
    IF path = <<>> THEN <<Dot>>
    ELSE LET rooted == path[1] = Slash
             body == JoinElems(CleanElems(Split(path), <<>>, rooted))
         IN  IF rooted THEN <<Slash>> \o body
             ELSE IF body = <<>> THEN <<Dot>> ELSE body

(* filepath.Join of two elements: empty ones are ignored, the result is    *)
(* cleaned.                                                                *)
Join(dir, name) ==
    IF dir = <<>> /\ name = <<>> THEN <<>>
    ELSE IF dir = <<>> THEN Clean(name)
    ELSE IF name = <<>> THEN Clean(dir)
    ELSE Clean(dir \o <<Slash>> \o name)

(* filepath.Abs once the working directory is known: an absolute path is   *)
(* cleaned, a relative one is joined to the working directory.             *)
Abs(path, wd) ==
    IF Len(path) > 0 /\ path[1] = Slash THEN Clean(path) ELSE Join(wd, path)

-----------------------------------------------------------------------------
(* The file system below the source root.  An entry has a name, a kind     *)
(* ("file": regular file, "link": symbolic link or other non directory,    *)
(* "dir": directory), the entries of a directory in the order              *)
(* filepath.Walk visits them (readDirNames sorts the names by byte), and   *)
(* the two ways an entry can fail: lstat of the entry (lstatErr) and       *)
(* reading a directory's names (readErr).                                  *)
Entry(name, kind, kids, lstatErr, readErr) ==
    [name |-> name, kind |-> kind, kids |-> kids,
     lstatErr |-> lstatErr, readErr |-> readErr]
File(name)      == Entry(name, "file", <<>>, FALSE, FALSE)
Link(name)      == Entry(name, "link", <<>>, FALSE, FALSE)
Dir(name, kids) == Entry(name, "dir", kids, FALSE, FALSE)
Unreadable(name, kids) == Entry(name, "dir", kids, FALSE, TRUE)
Gone(name)      == Entry(name, "file", <<>>, TRUE, FALSE)

(* Entries a source root is populated from, in byte order of their names.  *)
Pool ==
    << File(<<46, 119, 97, 118>>),                                \* .wav
       File(<<75, 73, 67, 75, 46, 65, 73, 70, 70>>),              \* KICK.AIFF
       Dir(<<75, 105, 99, 107, 46, 87, 97, 118>>,                 \* Kick.Wav/
           << File(<<107, 105, 99, 107>>),                        \*   kick
              File(<<107, 105, 99, 107, 46, 97, 105, 102>>),      \*   kick.aif
              File(<<115, 110, 97, 114, 101, 46, 119, 97, 118>>) >>),  \* snare.wav
       Link(<<107, 105, 99, 107, 46, 97, 105, 102>>),             \* kick.aif -> ...
       File(<<107, 105, 99, 107, 46, 119, 97, 118, 46, 116, 120, 116>>),  \* kick.wav.txt
       File(<<107, 105, 99, 107, 95, 56, 48, 56, 46, 119, 97, 118>>),     \* kick_808.wav
       Unreadable(<<112, 97, 99, 107>>,                           \* pack/ (no read permission)
           << File(<<107, 105, 99, 107, 46, 119, 97, 118>>) >>),  \*   kick.wav
       File(<<115, 110, 97, 114, 101, 46, 119, 97, 118>>),        \* snare.wav
       Gone(<<122, 122, 46, 119, 97, 118>>) >>                    \* zz.wav (lstat fails)

(* Byte order of two strings, as sort.Strings orders directory names.      *)
RECURSIVE Less(_, _)
Less(a, b) ==
    IF b = <<>> THEN FALSE
    ELSE IF a = <<>> THEN TRUE
    ELSE IF a[1] # b[1] THEN a[1] < b[1]
    ELSE Less(Tail(a), Tail(b))

RECURSIVE SortedTree(_)
SortedTree(e) ==
    /\ \A j \in 1..(Len(e.kids) - 1) : Less(e.kids[j].name, e.kids[j + 1].name)
    /\ \A j \in 1..Len(e.kids) : SortedTree(e.kids[j])

(* The subsequence of s at the positions in pick.                          *)
RECURSIVE Pick(_, _, _)
Pick(s, pick, j) ==
    IF j > Len(s) THEN <<>>
    ELSE (IF j \in pick THEN <<s[j]>> ELSE <<>>) \o Pick(s, pick, j + 1)

(* The flush threshold of the grouping loop ("fileIdx >= 128") and the     *)
(* defaults of the -perFolder and -max flags.                              *)
GroupFull        == 128
GroupSizeDefault == 128
MaxDefault       == 1000

(* The largest flat sample folder that is explored, and the folder sizes   *)
(* explored: around the empty folder and around one and two full groups.   *)
MaxFiles == 258
FlatSizes ==
    {0, 1, 2, 3, GroupFull - 1, GroupFull, GroupFull + 1, 2 * GroupFull, MaxFiles}

(* The name of the j-th sample of a flat folder: k001.wav, k002.wav, ...   *)
FlatName(j) ==
    <<107, 48 + (j \div 100), 48 + ((j \div 10) % 10), 48 + (j % 10), 46, 119, 97, 118>>

FlatTrees == [n \in FlatSizes |-> Dir(<<>>, [j \in 1..n |-> File(FlatName(j))])]

(* The tree a selector stands for: a root directory holding the picked     *)
(* pool entries, a root directory of n samples, a source path naming a     *)
(* regular file, or a source path that does not exist.                     *)
TreeOf(sel) ==
    CASE sel[1] = "pool" -> Dir(<<>>, Pick(Pool, sel[2], 1))
      [] sel[1] = "flat" -> FlatTrees[sel[2]]
      [] sel[1] = "file" -> File(<<>>)
      [] sel[1] = "gone" -> Gone(<<>>)

(* An entry is named by its position: <<>> is the root, <<j>> its j-th     *)
(* entry, <<j, k>> the k-th entry of that one.                             *)
RECURSIVE EntryAt(_, _)
EntryAt(e, at) ==
    IF at = <<>> THEN e ELSE EntryAt(e.kids[Head(at)], Tail(at))

(* The path filepath.Walk hands to the callback for the entry at a         *)
(* position: the root path joined with the names down to the entry.        *)
RECURSIVE PathAt(_, _, _)
PathAt(root, e, at) ==
    IF at = <<>> THEN root
    ELSE PathAt(Join(root, e.kids[Head(at)].name), e.kids[Head(at)], Tail(at))

-----------------------------------------------------------------------------
(* Inputs.  Every family varies some inputs over the values below and      *)
(* keeps the others at one value.                                          *)
NoString == <<>>
SrcInputs ==
    { NoString,                  \* -src not given
      <<46>>,                    \* .
      <<126, 47, 115>>,          \* ~/s
      <<47, 115>>,               \* /s
      <<46, 47, 115>>,           \* ./s
      <<126, 120>>,              \* ~x
      <<47, 126, 47, 115>> }     \* /~/s
DestInputs ==
    { NoString,                  \* -dest not given
      <<126>>,                   \* ~
      <<126, 47, 100>>,          \* ~/d
      <<47, 100>>,               \* /d
      <<100>> }                  \* d
Homes       == { <<47, 104>>, <<47>> }                      \* /h  /
WorkDir     == <<47, 119>>                                  \* /w
SrcDir      == <<47, 115>>                                  \* /s
SrcFile     == <<47, 115, 47, 75, 105, 99, 107, 46, 87, 65, 86>>  \* /s/Kick.WAV
DestDir     == <<47, 100>>                                  \* /d
KeyKick     == <<75, 105, 99, 107>>                         \* Kick
Keywords    == { KeyKick, <<119, 97, 118>>, <<97>> }        \* Kick  wav  a
KeyK        == <<107>>                                      \* k
GroupSizes  == {2, GroupSizeDefault}
MaxValues   == {0, 1, GroupFull, GroupFull + 1, 200, MaxDefault}
FaultKinds  == {"open", "create", "copy", "sync", "close"}
NoFault     == [src |-> <<0>>, kind |-> "none"]

(* What the run finds around it: the home directory user.Current gives or  *)
(* its failure, the working directory or the failure of os.Getwd, the tree *)
(* at the source root, the -dest argument as given, the one copy that fails and how, the group folders  *)
(* os.MkdirAll cannot create, and what the destination holds at the start. *)
Env(destArg, home, userErr, getwdErr, tree, fault, mkdirFail, dirs0, dest0) ==
    [destArg |-> destArg, home |-> home, userErr |-> userErr, wd |-> WorkDir, getwdErr |-> getwdErr,
     tree |-> tree, fault |-> fault, mkdirFail |-> mkdirFail,
     dirs0 |-> dirs0, dest0 |-> dest0]

Flags(src, keyword, dest, perFolder, dry, max) ==
    [src |-> src, keyword |-> keyword, dest |-> dest, perFolder |-> perFolder,
     dry |-> dry, max |-> max]

(* An old file of the destination that the first sample of a flat folder   *)
(* is copied over.                                                         *)
OldFile == [dir |-> 1, name |-> FlatName(1), data |-> "old"]

PathRuns ==
    { <<Flags(s, k, d, GroupSizeDefault, FALSE, MaxDefault),
        Env(d, h, ue, ge, <<"pool", {2, 6}>>, NoFault, {}, {}, {})>> :
      s \in SrcInputs, k \in {NoString, KeyKick}, d \in DestInputs,
      h \in Homes, ue \in BOOLEAN, ge \in BOOLEAN }

TreeRuns ==
    { <<Flags(r[1], k, DestDir, GroupSizeDefault, FALSE, MaxDefault),
        Env(DestDir, <<47, 104>>, FALSE, FALSE, r[2], NoFault, {}, {}, {})>> :
      k \in Keywords,
      r \in ({SrcDir} \X {<<"pool", S>> : S \in SUBSET (1..Len(Pool))})
            \cup ({SrcDir, SrcFile} \X {<<"file">>, <<"gone">>}) }

GroupRuns ==
    { <<Flags(SrcDir, KeyK, DestDir, gm[1], FALSE, gm[2]),
        Env(DestDir, <<47, 104>>, FALSE, FALSE, <<"flat", n>>, NoFault, {}, {}, {})>> :
      n \in FlatSizes,
      gm \in ({GroupSizeDefault} \X MaxValues) \cup ((GroupSizes \ {GroupSizeDefault}) \X {MaxDefault}) }

(* The failures explored: one failing copy of each kind, a group folder    *)
(* that cannot be made, an old file in the destination, and a failing copy *)
(* next to both.                                                           *)
Faults == [src : {<<1>>, <<2>>, <<GroupFull + 1>>}, kind : FaultKinds]
FaultCases ==
    {<<f, {}, {}>> : f \in {NoFault} \cup Faults}
        \cup {<<NoFault, mk, {}>> : mk \in {{1}, {2}}}
        \cup {<<f, {2}, {1}>> : f \in {NoFault} \cup [src : {<<1>>}, kind : FaultKinds]}

FaultRuns ==
    { <<Flags(SrcDir, KeyK, DestDir, GroupSizeDefault, dry, MaxDefault),
        Env(DestDir, <<47, 104>>, FALSE, FALSE, <<"flat", n>>, c[1], c[2], c[3],
            IF 1 \in c[3] THEN {OldFile} ELSE {})>> :
      dry \in BOOLEAN, n \in {2, GroupFull + 1}, c \in FaultCases }

Runs == { r \in PathRuns \cup TreeRuns \cup GroupRuns \cup FaultRuns :
            /\ SortedTree(TreeOf(r[2].tree))
            /\ r[2].mkdirFail \cap r[2].dirs0 = {} }

-----------------------------------------------------------------------------
VARIABLES
    flagSource, flagKeyword, flagDestination,   \* -src, -keyword, -dest
    flagGroupSize, flagDryRun, flagMax,         \* -perFolder, -dry, -max
    env,            \* what the run finds around it (see Env)
    pc,             \* where main is
    exitCode,       \* -1 while running, then the exit status of the process
    sourcePath, destPath,                       \* the expanded paths
    fullPath,       \* the root handed to filepath.Walk
    stack,          \* the entries filepath.Walk has still to visit, next first
    walkErrs,       \* how many times Walk handed an error to visit
    err,            \* main's err after findMatchingFiles
    matchingPaths,  \* the package-level list of matches (entries, by position)
    groupIdx, fileIdx, files, i,                \* the locals of the grouping loop
    call,           \* the running call of copyFilesToGroup
    dirs,           \* the group folders that exist in the destination
    destFiles,      \* the files of the destination and what they hold
    opened,         \* the source files that were opened
    flushed,        \* the calls of copyFilesToGroup so far: group index and paths
    attempts,       \* the calls of copyFileContents so far and their results
    batchErrs       \* the group indexes main logged a batch error for

flags == <<flagSource, flagKeyword, flagDestination, flagGroupSize, flagDryRun, flagMax>>
paths == <<sourcePath, destPath, fullPath>>
walk  == <<stack, walkErrs, err, matchingPaths>>
loop  == <<groupIdx, fileIdx, files, i>>
disk  == <<dirs, destFiles, opened>>
logs  == <<flushed, attempts, batchErrs>>
vars  == <<flags, env, pc, exitCode, paths, walk, loop, call, disk, logs>>

NoCall == [srcPaths |-> <<>>, idx |-> 0, k |-> 0, ret |-> "none"]

Init ==
    \E r \in Runs :
        /\ flagSource = r[1].src
        /\ flagKeyword = r[1].keyword
        /\ flagDestination = r[1].dest
        /\ flagGroupSize = r[1].perFolder
        /\ flagDryRun = r[1].dry
        /\ flagMax = r[1].max
        /\ env = r[2]
        /\ pc = "start"
        /\ exitCode = -1
        /\ sourcePath = NoString /\ destPath = NoString /\ fullPath = NoString
        /\ stack = <<>> /\ walkErrs = 0 /\ err = "nil"
        /\ matchingPaths = <<>>
        /\ groupIdx = 0 /\ fileIdx = 0 /\ files = <<>> /\ i = 0
        /\ call = NoCall
        /\ dirs = r[2].dirs0 /\ destFiles = r[2].dest0 /\ opened = {}
        /\ flushed = <<>> /\ attempts = <<>> /\ batchErrs = <<>>

(* os.Exit(code), or the exit of a run that panics (status 2).             *)
Exit(at, code) == pc' = at /\ exitCode' = code

-----------------------------------------------------------------------------
(* main, lines 33-54: the required flags, the keyword in lower case, the   *)
(* current user and the default destination.                               *)
CheckFlags ==
    /\ pc = "start"
    /\ IF flagSource = NoString \/ flagKeyword = NoString
       THEN Exit("exit", 1) /\ UNCHANGED <<flagKeyword, flagDestination>>
       ELSE /\ flagKeyword' = ToLower(flagKeyword)
            /\ IF env.userErr
               THEN Exit("exit", 1) /\ UNCHANGED flagDestination
               ELSE /\ flagDestination' =
                         IF flagDestination = NoString THEN env.home ELSE flagDestination
                    /\ pc' = "expand" /\ UNCHANGED exitCode
    /\ UNCHANGED <<flagSource, flagGroupSize, flagDryRun, flagMax, env, paths, walk,
                   loop, call, disk, logs>>

(* The slice expression s[:n] of Go is in range when n <= len(s); out of   *)
(* range it panics.                                                        *)
SliceInRange(s, n) == n <= Len(s)

(* main, lines 58-60 and 62-64: a path that starts with "~/" gets its      *)
(* first "~" replaced by the home directory.                               *)
Expand(path, home) ==
    IF SubSeq(path, 1, 2) = <<Tilde, Slash>> THEN ReplaceFirst(path, Tilde, home) ELSE path

(* main, lines 56-64: the source path, then the destination path.          *)
ExpandPaths ==
    /\ pc = "expand"
    /\ IF ~SliceInRange(flagSource, 2)
       THEN Exit("panic", 2) /\ UNCHANGED <<sourcePath, destPath>>
       ELSE /\ sourcePath' = Expand(flagSource, env.home)
            /\ IF ~SliceInRange(flagDestination, 2)
               THEN Exit("panic", 2) /\ UNCHANGED destPath
               ELSE /\ destPath' = Expand(flagDestination, env.home)
                    /\ pc' = "find" /\ UNCHANGED exitCode
    /\ UNCHANGED <<flags, env, fullPath, walk, loop, call, disk, logs>>

(* findMatchingFiles, lines 114-123, and main's check of its error, lines  *)
(* 68-71: an empty source and a failing filepath.Abs (the working          *)
(* directory of a relative path cannot be read) end the run; otherwise the *)
(* walk starts at the absolute path.                                       *)
FindMatchingFiles ==
    /\ pc = "find"
    /\ IF sourcePath = NoString \/ (sourcePath[1] # Slash /\ env.getwdErr)
       THEN /\ err' = "find" /\ Exit("exit", 1)
            /\ UNCHANGED <<fullPath, stack>>
       ELSE /\ fullPath' = Abs(sourcePath, env.wd)
            /\ stack' = << <<>> >>
            /\ pc' = "walk"
            /\ UNCHANGED <<err, exitCode>>
    /\ UNCHANGED <<flags, env, sourcePath, destPath, walkErrs, matchingPaths,
                   loop, call, disk, logs>>

-----------------------------------------------------------------------------
(* The extensions visit accepts, line 137.                                 *)
AudioExts ==
    { <<46, 119, 97, 118>>,          \* .wav
      <<46, 97, 105, 102, 102>>,     \* .aiff
      <<46, 97, 105, 102>> }         \* .aif

(* A variant of Matches that looks for the keyword in the whole path.      *)
MatchesInPath(path, keyword) ==
    LET filename == ToLower(Base(path))
    IN  Ext(filename) \in AudioExts /\ Contains(ToLower(path), keyword)

(* visit, lines 135-140: the test of a path that is not a directory.       *)
Matches(path, keyword) ==
    LET filename == ToLower(Base(path))
        ext == Ext(filename)
    IN  ext \in AudioExts /\ Contains(filename, keyword)

(* The os.FileInfo of an entry whose lstat failed.                         *)
NilInfo == [kind |-> "nil"]

(* visit, lines 129-148, called for the entry at position at with its      *)
(* path, its FileInfo and the list of matches so far.  The error Walk      *)
(* hands over is not looked at; fi.IsDir() on a nil FileInfo panics.  The  *)
(* result: whether the call panics, the error returned and the list.       *)
visit(at, path, fi, keyword, matches) ==
    IF fi = NilInfo THEN [panic |-> TRUE, e |-> "nil", matches |-> matches]
    ELSE IF fi.kind = "dir" THEN [panic |-> FALSE, e |-> "nil", matches |-> matches]
    ELSE IF Matches(path, keyword)
         THEN [panic |-> FALSE, e |-> "nil", matches |-> Append(matches, at)]
         ELSE [panic |-> FALSE, e |-> "nil", matches |-> matches]

(* One step of filepath.Walk (line 124): lstat of the next entry and the   *)
(* call of visit for it.  An entry whose lstat fails is handed over with a *)
(* nil FileInfo and the error; a directory is handed over with the error   *)
(* of reading its names, and its entries follow only when visit returned   *)
(* nil and the names were read.  An error visit returns ends the walk.     *)
WalkStep ==
    /\ pc = "walk" /\ stack # <<>>
    /\ LET at   == Head(stack)
           tree == TreeOf(env.tree)
           e    == EntryAt(tree, at)
           fi   == IF e.lstatErr THEN NilInfo ELSE e
           r    == visit(at, PathAt(fullPath, tree, at), fi, flagKeyword, matchingPaths)
           failed == e.lstatErr \/ (e.kind = "dir" /\ e.readErr)
       IN  /\ walkErrs' = IF failed THEN walkErrs + 1 ELSE walkErrs
           /\ matchingPaths' = r.matches
           /\ IF r.panic
              THEN Exit("panic", 2) /\ UNCHANGED <<stack, err>>
              ELSE /\ UNCHANGED <<pc, exitCode>>
                   /\ err' = r.e
                   /\ stack' =
                        IF r.e # "nil" THEN <<>>
                        ELSE IF e.kind = "dir" /\ ~failed
                        THEN [j \in 1..Len(e.kids) |-> Append(at, j)] \o Tail(stack)
                        ELSE Tail(stack)
    /\ UNCHANGED <<flags, env, paths, loop, call, disk, logs>>

(* The walk is over: findMatchingFiles returns the list and the error of   *)
(* the walk (line 125); main ends the run on an error (lines 68-71) and    *)
(* otherwise sets up the grouping loop (lines 73-80).                      *)
WalkReturn ==
    /\ pc = "walk" /\ stack = <<>>
    /\ IF err # "nil"
       THEN Exit("exit", 1) /\ UNCHANGED loop
       ELSE /\ groupIdx' = 1 /\ fileIdx' = 0 /\ files' = <<>> /\ i' = 0
            /\ pc' = "loop" /\ UNCHANGED exitCode
    /\ UNCHANGED <<flags, env, paths, walk, call, disk, logs>>

-----------------------------------------------------------------------------
(* A variant of ReachedMax that stops one match late.                      *)
ReachedMaxLate(idx, max) == idx > max

(* Line 83: the loop stops at index i.                                     *)
ReachedMax(idx, max) == idx >= max

(* Line 88: the group is taken to be filled.  The test is against the     *)
(* literal 128; the value of -perFolder is not read anywhere in the code.  *)
GroupFilled(count, perFolder) == count >= GroupFull

(* What the loop does with the buffer once the filled group was copied,    *)
(* line 98.                                                                *)
FilesAfterFlush(buffer) == <<>>

(* A variant of NextGroup that leaves a group index out.                   *)
NextGroupSkips(idx) == idx + 2

(* The group index after a flush, line 96.                                 *)
NextGroup(idx) == idx + 1

(* The call copyFilesToGroup(srcPaths, destPath, idx), to return to ret.   *)
Call(srcPaths, idx, ret) ==
    /\ call' = [srcPaths |-> srcPaths, idx |-> idx, k |-> 1, ret |-> ret]
    /\ flushed' = Append(flushed, [idx |-> idx, srcPaths |-> srcPaths])
    /\ pc' = "mkdir"

(* One pass of the loop over matchingPaths, lines 82-104, up to the call   *)
(* of copyFilesToGroup when the group is filled.                           *)
LoopStep ==
    /\ pc = "loop"
    /\ IF i >= Len(matchingPaths) \/ ReachedMax(i, flagMax)
       THEN /\ pc' = "leftover"
            /\ UNCHANGED <<loop, call, flushed>>
       ELSE IF GroupFilled(fileIdx, flagGroupSize)
       THEN /\ fileIdx' = 0
            /\ Call(files, groupIdx, "resume")
            /\ UNCHANGED <<groupIdx, files, i>>
       ELSE /\ files' = Append(files, matchingPaths[i + 1])
            /\ fileIdx' = fileIdx + 1
            /\ i' = i + 1
            /\ UNCHANGED <<pc, groupIdx, call, flushed>>
    /\ UNCHANGED <<flags, env, exitCode, paths, walk, disk, attempts, batchErrs>>

(* The rest of the pass after copyFilesToGroup returned, lines 95-103.     *)
LoopResume ==
    /\ pc = "resume"
    /\ groupIdx' = NextGroup(groupIdx)
    /\ files' = Append(FilesAfterFlush(files), matchingPaths[i + 1])
    /\ fileIdx' = fileIdx + 1
    /\ i' = i + 1
    /\ pc' = "loop"
    /\ UNCHANGED <<flags, env, exitCode, paths, walk, call, disk, logs>>

(* Lines 105-111: the left overs are copied, then the summary.             *)
LeftOvers ==
    /\ pc = "leftover"
    /\ IF Len(files) > 0
       THEN Call(files, groupIdx, "done") /\ UNCHANGED exitCode
       ELSE Exit("done", 0) /\ UNCHANGED <<call, flushed>>
    /\ UNCHANGED <<flags, env, paths, walk, loop, disk, attempts, batchErrs>>

-----------------------------------------------------------------------------
(* The path of a match, and the destination file of its copy into a group  *)
(* folder (lines 152 and 157-158): the folder group_<idx> of the           *)
(* destination and the last element of the source path.                    *)
PathOf(at) == PathAt(fullPath, TreeOf(env.tree), at)
Dest(src, idx) == [dir |-> idx, name |-> Base(PathOf(src))]

(* The destination after dst was written with data.                        *)
Put(fs, dst, data) ==
    {f \in fs : ~(f.dir = dst.dir /\ f.name = dst.name)}
        \cup {[dir |-> dst.dir, name |-> dst.name, data |-> data]}

(* copyFileContents past the dry run test, lines 175-194, on a disk        *)
(* d = [dirs, destFiles, opened], with the failure "fault" injected        *)
(* ("none": no failure).  The result is the error returned and the disk    *)
(* afterwards.  os.Open of the source comes first.  os.Create fails        *)
(* when the folder of dst does not exist; it truncates dst; a failing      *)
(* io.Copy leaves a part of the data; Sync and Close fail after the data   *)
(* was written.                                                            *)
copyLive(src, dst, fault, d) ==
    IF fault = "open" THEN [e |-> "open", disk |-> d]
    ELSE LET d1 == [d EXCEPT !.opened = @ \cup {src}]
         IN  IF fault = "create" \/ dst.dir \notin d.dirs
             THEN [e |-> "create", disk |-> d1]
             ELSE IF fault = "copy"
             THEN [e |-> "copy",
                   disk |-> [d1 EXCEPT !.destFiles =
                                Put(@, dst, [src |-> src, part |-> "some"])]]
             ELSE [e |-> IF fault \in {"sync", "close"} THEN fault ELSE "nil",
                   disk |-> [d1 EXCEPT !.destFiles =
                                Put(@, dst, [src |-> src, part |-> "all"])]]

(* A variant of copyFileContents without the dry run test.                 *)
copyFileContentsAlways(src, dst, dry, fault, d) == copyLive(src, dst, fault, d)

(* copyFileContents, lines 170-195: a dry run logs the pair and returns    *)
(* nil before any file is touched.                                         *)
copyFileContents(src, dst, dry, fault, d) ==
    IF dry THEN [e |-> "nil", disk |-> d] ELSE copyLive(src, dst, fault, d)

(* The failure the environment injects into the copy of src.               *)
FaultOf(src) == IF env.fault.src = src THEN env.fault.kind ELSE "none"

(* copyFilesToGroup, lines 152-154: the group folder is made, the result   *)
(* of os.MkdirAll is dropped.                                              *)
MakeGroupDir ==
    /\ pc = "mkdir"
    /\ dirs' = IF call.idx \in env.mkdirFail THEN dirs ELSE dirs \cup {call.idx}
    /\ pc' = "copy"
    /\ UNCHANGED <<flags, env, exitCode, paths, walk, loop, call, destFiles, opened, logs>>

(* A variant of AfterCopy that gives the group up at the first failure.    *)
AfterCopyAborts(e, k, n) == IF e # "nil" THEN n + 1 ELSE k + 1

(* Lines 162-165: where the loop over srcPaths goes on after the copy at   *)
(* position k of n returned e ("continue" after the log, or the next       *)
(* pass).                                                                  *)
AfterCopy(e, k, n) == k + 1

(* copyFilesToGroup, lines 156-166: one pass of the loop over srcPaths.    *)
CopyFile ==
    /\ pc = "copy" /\ call.k <= Len(call.srcPaths)
    /\ LET src == call.srcPaths[call.k]
           dst == Dest(src, call.idx)
           r   == copyFileContents(src, dst, flagDryRun, FaultOf(src),
                                   [dirs |-> dirs, destFiles |-> destFiles, opened |-> opened])
       IN  /\ attempts' = Append(attempts, [idx |-> call.idx, src |-> src, e |-> r.e])
           /\ destFiles' = r.disk.destFiles
           /\ opened' = r.disk.opened
           /\ call' = [call EXCEPT !.k = AfterCopy(r.e, call.k, Len(call.srcPaths))]
    /\ UNCHANGED <<flags, env, pc, exitCode, paths, walk, loop, dirs, flushed, batchErrs>>

(* The error copyFilesToGroup returns, line 167.                           *)
GroupResult == "nil"

(* copyFilesToGroup returns (line 167); main logs a returned error for     *)
(* the group (lines 92-94 and 107-109) and goes on, with the loop or with  *)
(* the summary (line 111).                                                 *)
CopyReturn ==
    /\ pc = "copy" /\ call.k > Len(call.srcPaths)
    /\ batchErrs' = IF GroupResult # "nil" THEN Append(batchErrs, call.idx) ELSE batchErrs
    /\ call' = NoCall
    /\ IF call.ret = "done" THEN Exit("done", 0) ELSE pc' = call.ret /\ UNCHANGED exitCode
    /\ UNCHANGED <<flags, env, paths, walk, loop, disk, flushed, attempts>>

-----------------------------------------------------------------------------
Next ==
    \/ CheckFlags
    \/ ExpandPaths
    \/ FindMatchingFiles
    \/ WalkStep
    \/ WalkReturn
    \/ LoopStep
    \/ LoopResume
    \/ LeftOvers
    \/ MakeGroupDir
    \/ CopyFile
    \/ CopyReturn

Spec == Init /\ [][Next]_vars

-----------------------------------------------------------------------------
(* Notions the properties below are stated with.                           *)

Grouping  == pc \in {"loop", "resume", "leftover", "mkdir", "copy", "done"}
Min(a, b) == IF a <= b THEN a ELSE b
CeilDiv(a, b) == (a + b - 1) \div b

(* The paths of the flushed groups one after the other, each with the      *)
(* index of its group.                                                     *)
RECURSIVE FlushedPairs(_)
FlushedPairs(bs) ==
    IF bs = <<>> THEN <<>>
    ELSE [j \in 1..Len(bs[1].srcPaths) |-> <<bs[1].idx, bs[1].srcPaths[j]>>]
            \o FlushedPairs(Tail(bs))
FlushedPaths ==
    LET fp == FlushedPairs(flushed) IN [j \in 1..Len(fp) |-> fp[j][2]]
AttemptPairs == [j \in 1..Len(attempts) |-> <<attempts[j].idx, attempts[j].src>>]
AttemptPaths == [j \in 1..Len(attempts) |-> attempts[j].src]

(* The paths of the running call of copyFilesToGroup not yet copied.       *)
Pending == IF pc \in {"mkdir", "copy"} THEN Len(call.srcPaths) - (call.k - 1) ELSE 0

-----------------------------------------------------------------------------
(* C1: with a max of at least L, a finished run over L matches has flushed *)
(* ceil(L / G) groups for the configured group size G, every group but the *)
(* last of exactly G paths and the last of L mod G paths (G when G divides *)
(* L).                                                                     *)
C1_GroupCountAndSizes ==
    (pc = "done" /\ flagMax >= Len(matchingPaths)) =>
        LET L == Len(matchingPaths)
            G == flagGroupSize
            N == Len(flushed)
        IN  /\ N = CeilDiv(L, G)
            /\ \A b \in 1..(N - 1) : Len(flushed[b].srcPaths) = G
            /\ N > 0 => Len(flushed[N].srcPaths) = (IF L % G = 0 THEN G ELSE L % G)

(* C2: every group handed to copyFilesToGroup holds at most the configured *)
(* group size of paths.                                                    *)
C2_GroupWithinConfiguredSize ==
    \A b \in 1..Len(flushed) : Len(flushed[b].srcPaths) <= flagGroupSize

(* C3: with a max M of at most L, no more than M paths are ever in the     *)
(* groups and the buffer, the copies attempted are those of the first      *)
(* matches in discovery order and never more than M (so no match after the *)
(* M-th is handed to a copy), and the finished run has flushed and copied  *)
(* exactly the first M matches, the last group ending with the M-th even   *)
(* when it is not full.                                                    *)
C3_GlobalCap ==
    (Grouping /\ flagMax <= Len(matchingPaths)) =>
        LET fp == FlushedPaths
        IN  /\ i <= flagMax
            /\ Len(fp) + (IF pc \in {"loop", "leftover"} THEN Len(files) ELSE 0) <= flagMax
            /\ Len(attempts) <= flagMax
            /\ AttemptPaths = SubSeq(matchingPaths, 1, Len(attempts))
            /\ pc = "done" =>
                  /\ Len(fp) = flagMax
                  /\ Len(attempts) = flagMax
                  /\ flagMax > 0 => fp[flagMax] = matchingPaths[flagMax]

C3_Witness ==
    /\ pc = "done"
    /\ 0 < flagMax /\ flagMax < Len(matchingPaths)
    /\ flagMax % GroupFull # 0
    /\ Len(flushed) = 2
    /\ Len(flushed[2].srcPaths) < GroupFull

(* C4: the groups are flushed with the indexes 1, 2, ..., N in this order, *)
(* the flushed groups followed by the buffer are the matches taken so far  *)
(* in discovery order, and a finished run has flushed exactly the first    *)
(* min(L, max) matches.                                                    *)
C4_OrderedPartition ==
    Grouping =>
        /\ \A b \in 1..Len(flushed) : flushed[b].idx = b
        /\ pc \in {"loop", "leftover"} =>
              FlushedPaths \o files = SubSeq(matchingPaths, 1, i)
        /\ pc = "done" =>
              FlushedPaths = SubSeq(matchingPaths, 1, Min(Len(matchingPaths), flagMax))

C4_Witness ==
    /\ pc = "done"
    /\ Len(flushed) = 3
    /\ Len(flushed[3].srcPaths) = 2
    /\ Len(matchingPaths) = 2 * GroupFull + 2

-----------------------------------------------------------------------------
(* The positions of the entries of a tree.                                 *)
RECURSIVE Positions(_)
Positions(e) ==
    {<<>>} \cup UNION { { <<j>> \o at : at \in Positions(e.kids[j]) } : j \in 1..Len(e.kids) }

(* The name of the entry at a position; the root carries the last element  *)
(* of the source path.                                                     *)
NameAt(tree, at) == IF at = <<>> THEN Base(fullPath) ELSE EntryAt(tree, at).name

(* A file name is a match for keyword K: its extension, compared without   *)
(* regard to case, is .wav, .aiff or .aif, and the name in lower case      *)
(* holds K.                                                                *)
IsMatch(name, K) ==
    /\ \E x \in AudioExts : ToLower(Ext(name)) = x
    /\ \E o \in 1..Len(name) : \E n \in o..Len(name) : ToLower(SubSeq(name, o, n)) = K

C6_FailureIsolation ==
    /\ Grouping =>
          LET fp == FlushedPairs(flushed)
          IN  AttemptPairs = SubSeq(fp, 1, Len(fp) - Pending)
    /\ \A a \in 1..Len(attempts) :
          attempts[a].e = "nil" <=>
              \/ flagDryRun
              \/ FaultOf(attempts[a].src) = "none" /\ attempts[a].idx \notin env.mkdirFail
    /\ attempts # <<>> =>
          \/ pc = "done" /\ exitCode = 0
          \/ pc \in {"loop", "resume", "leftover", "mkdir", "copy"} /\ exitCode = -1
    /\ pc = "done" => Len(attempts) = Min(Len(matchingPaths), flagMax)

C6_Witness ==
    /\ pc = "done"
    /\ Len(flushed) = 2
    /\ Len(attempts) = GroupFull + 1
    /\ attempts[1].e = "open"
    /\ attempts[2].e = "nil"
    /\ attempts[GroupFull + 1].idx = 2
    /\ attempts[GroupFull + 1].e = "nil"

(* C7: a finished call of copyFilesToGroup whose group folder could not be *)
(* made has its group index logged by main as a batch error, and none of   *)
(* its paths was handed to copyFileContents.                               *)
C7_GroupDirFailureReported ==
    \A b \in 1..Len(flushed) :
        (flushed[b].idx \in env.mkdirFail /\ (b < Len(flushed) \/ pc = "done")) =>
            /\ \E j \in 1..Len(batchErrs) : batchErrs[j] = flushed[b].idx
            /\ \A a \in 1..Len(attempts) : attempts[a].idx # flushed[b].idx

(* C8: once the walk has handed an error to visit, the run does not get to *)
(* the grouping loop, flushes no group, copies no file, and ends with a    *)
(* non-zero exit status.                                                   *)
C8_WalkErrorsFatal ==
    walkErrs > 0 =>
        /\ ~Grouping
        /\ flushed = <<>> /\ attempts = <<>>
        /\ pc \in {"exit", "panic"} => exitCode # 0
        /\ (pc = "walk" /\ stack = <<>>) => err # "nil"

(* C9: in a dry run no source file is opened, the destination keeps the    *)
(* files and the contents it started with, every copy returns nil, and the *)
(* finished run has reported every pair of every flushed group.            *)
C9_DryRunTouchesNothing ==
    flagDryRun =>
        /\ opened = {}
        /\ destFiles = env.dest0
        /\ \A a \in 1..Len(attempts) : attempts[a].e = "nil"
        /\ pc = "done" => AttemptPairs = FlushedPairs(flushed)

C9_Witness ==
    /\ flagDryRun
    /\ pc = "done"
    /\ Len(attempts) = GroupFull + 1
    /\ env.dest0 # {}
    /\ env.fault.kind = "copy"

(* The expansion of a path: the home directory in place of the leading "~" *)
(* of a path that begins with "~/", any other path as it is.               *)
Expanded(path, home) ==
    IF Len(path) >= 2 /\ path[1] = Tilde /\ path[2] = Slash
    THEN home \o SubSeq(path, 2, Len(path))
    ELSE path

(* C10: for a non-empty source path and a non-empty -dest argument, the    *)
(* expansion step completes with both paths expanded and the run goes on   *)
(* to discovery.                                                           *)
C10_ExpansionNeverFails ==
    [][(pc = "expand" /\ env.destArg # NoString) =>
          /\ pc' = "find"
          /\ sourcePath' = Expanded(flagSource, env.home)
          /\ destPath' = Expanded(flagDestination, env.home)]_vars

=============================================================================
